---- MODULE Spec2Model ----
(***************************************************************************)
(* Model of LangChainService (backend langchain service of the reporting   *)
(* agent): the model-provider registry (initializeLLMs, getLLM,            *)
(* getAvailableLLMs), the connection resolver (getSqlDatabase) and the     *)
(* excel_export tool (createExcelExportTool.func) with its S3 retry loop   *)
(* and its pure helpers; and the agent loop, whose code is not part of the *)
(* service and is modelled from the design's state machine.                *)
(*                                                                         *)
(* JavaScript values are modelled as follows: undefined is the record      *)
(* Undefined; a string that the code inspects character by character is a  *)
(* sequence of one-character strings; an object is a record whose DOMAIN   *)
(* holds the properties that are present.  Every await of the code is a    *)
(* step boundary: the outcome of the awaited call is chosen by the         *)
(* environment in the action that resumes the method.                      *)
(***************************************************************************)
EXTENDS Integers, Sequences, FiniteSets, TLC

VARIABLES
    env,            \* process.env: the two provider API keys and PG_DATABASE
    openaiLLM,      \* LangChainService.openaiLLM
    anthropicLLM,   \* LangChainService.anthropicLLM
    consoleErrors,  \* number of console.error lines written by initializeLLMs
    llmCall,        \* the last getLLM call: its argument and what it returned
    llmListing,     \* the last getAvailableLLMs result
    rpc,            \* getSqlDatabase: position of the running call
    rconfig,        \* getSqlDatabase: its connectionConfig argument
    existingTables, \* getSqlDatabase: local existingTables
    enumStatus,     \* getSqlDatabase: how the try block of lines 128-142 ended
    opened,         \* every options object handed to SqlDatabase.fromOptionsParams
    queries,        \* every query run: the connection (index in opened) and the SQL
    probeStatus,    \* outcome of the test query
    rresult,        \* what getSqlDatabase settled with
    epc,            \* excel_export func: position of the running call
    eargs,          \* excel_export func: its args argument
    upload,         \* excel_export func: the PutObjectCommand built at line 308
    uploadAttempts, \* excel_export func: local uploadAttempts
    events,         \* excel_export func: size check, s3Client.send outcomes, waits, throws
    eresult,        \* what the excel_export func settled with
    fn,             \* the last application of a pure helper: its inputs and outputs
    lstate,         \* agent loop: state of the turn
    literations,    \* agent loop: reasoning steps taken in the turn
    lprogress       \* agent loop: percentage of the last progress event

regVars == <<env, openaiLLM, anthropicLLM, consoleErrors, llmCall, llmListing>>
expVars == <<epc, eargs, upload, uploadAttempts, events, eresult>>
fnVars == <<fn>>
loopVars == <<lstate, literations, lprogress>>
resVars == <<rpc, rconfig, existingTables, enumStatus, opened, queries, probeStatus, rresult>>

Undefined == [kind |-> "undefined"]

----------------------------------------------------------------------------
(* Model provider registry                                                 *)

\* Values an API key environment variable can have: unset, empty, set.
KeyValues == {"unset", "", "sk-key"}

\* JavaScript truthiness of an environment variable.
EnvTruthy(v) == v # "unset" /\ v # ""

OpenAIBackend == [kind |-> "llm", provider |-> "openai", model |-> "gpt-4.1-mini-2025-04-14"]
AnthropicBackend == [kind |-> "llm", provider |-> "anthropic", model |-> "claude-3-haiku-20240307"]

\* initializeLLMs: the fields and the console output it leaves behind.
initializeLLMs(e) ==
    [openaiLLM |-> IF EnvTruthy(e.OPENAI_API_KEY) THEN OpenAIBackend ELSE Undefined,
     anthropicLLM |-> IF EnvTruthy(e.ANTHROPIC_API_KEY) THEN AnthropicBackend ELSE Undefined,
     consoleErrors |-> IF ~EnvTruthy(e.OPENAI_API_KEY) /\ ~EnvTruthy(e.ANTHROPIC_API_KEY)
                       THEN 1 ELSE 0]

\* a || b on two backend fields
OrElse(a, b) == IF a # Undefined THEN a ELSE b

\* The provider arguments tried: absent, the two known ids, an unknown id.
ProviderArgs == {"<absent>", "openai", "anthropic", "gemini"}

\* getLLM with the fallback order reversed
getLLMAnthropicFirst(provider) ==
    IF provider = "openai" /\ openaiLLM # Undefined THEN openaiLLM
    ELSE IF provider = "anthropic" /\ anthropicLLM # Undefined THEN anthropicLLM
    ELSE OrElse(anthropicLLM, openaiLLM)

getLLM(provider) ==
    IF provider = "openai" /\ openaiLLM # Undefined THEN openaiLLM
    ELSE IF provider = "anthropic" /\ anthropicLLM # Undefined THEN anthropicLLM
    ELSE OrElse(openaiLLM, anthropicLLM)

\* the listing with anthropic pushed first
getAvailableLLMsAnthropicFirst ==
    (IF anthropicLLM # Undefined
     THEN <<[id |-> "anthropic", name |-> "Anthropic Claude 3 Haiku", provider |-> "anthropic",
             model |-> "claude-3-haiku-20240307", isAvailable |-> TRUE]>>
     ELSE <<>>)
    \o
    (IF openaiLLM # Undefined
     THEN <<[id |-> "openai", name |-> "OpenAI GPT-4.1 Mini", provider |-> "openai",
             model |-> "gpt-4.1-mini-2025-04-14", isAvailable |-> TRUE]>>
     ELSE <<>>)

getAvailableLLMs ==
    (IF openaiLLM # Undefined
     THEN <<[id |-> "openai", name |-> "OpenAI GPT-4.1 Mini", provider |-> "openai",
             model |-> "gpt-4.1-mini-2025-04-14", isAvailable |-> TRUE]>>
     ELSE <<>>)
    \o
    (IF anthropicLLM # Undefined
     THEN <<[id |-> "anthropic", name |-> "Anthropic Claude 3 Haiku", provider |-> "anthropic",
             model |-> "claude-3-haiku-20240307", isAvailable |-> TRUE]>>
     ELSE <<>>)

NoCall == [kind |-> "none"]

GetLLM ==
    /\ \E p \in ProviderArgs :
          llmCall' = [kind |-> "call", provider |-> p, value |-> getLLM(p)]
    /\ UNCHANGED <<env, openaiLLM, anthropicLLM, consoleErrors, llmListing>>
    /\ UNCHANGED resVars
    /\ UNCHANGED expVars
    /\ UNCHANGED fnVars
    /\ UNCHANGED loopVars

GetAvailableLLMs ==
    /\ llmListing' = [kind |-> "listing", llms |-> getAvailableLLMs]
    /\ UNCHANGED <<env, openaiLLM, anthropicLLM, consoleErrors, llmCall>>
    /\ UNCHANGED resVars
    /\ UNCHANGED expVars
    /\ UNCHANGED fnVars
    /\ UNCHANGED loopVars

----------------------------------------------------------------------------
(* Connection resolver: getSqlDatabase                                     *)

DbTypes == {"postgres", "mysql", "sqlite", "mssql"}
RequiredFields == {"type", "host", "port", "database", "username", "password"}

GoodConfig(t) ==
    [type |-> t, host |-> "db.local", port |-> 5432, database |-> "sales",
     username |-> "user", password |-> "secret"]

\* obj without property f
Without(obj, f) == [g \in (DOMAIN obj) \ {f} |-> obj[g]]

\* obj with property f empty ("" for a string, 0 for the port)
Emptied(obj, f) == [obj EXCEPT ![f] = IF f = "port" THEN 0 ELSE ""]

\* The connectionConfig arguments tried: none, a complete one per dialect, and
\* a postgres one with one required field missing or empty.
ConfigArgs ==
    {Undefined}
    \cup {GoodConfig(t) : t \in DbTypes}
    \cup {Without(GoodConfig("postgres"), f) : f \in RequiredFields}
    \cup {Emptied(GoodConfig("postgres"), f) : f \in RequiredFields \ {"type"}}
    \cup {[GoodConfig("postgres") EXCEPT !.type = ""]}

\* config.type, "<undefined>" standing for a property that is not there
TypeOf(config) == IF "type" \in DOMAIN config THEN config.type ELSE "<undefined>"

\* appDataSourceOptions built from the config (lines 111-118 and 146-153)
appDataSourceOptions(config) ==
    [f \in RequiredFields \cap DOMAIN config |-> config[f]]

basicOptions(config) ==
    [appDataSourceOptions |-> appDataSourceOptions(config), ignoreTables |-> <<>>]

options(config, tables) ==
    [appDataSourceOptions |-> appDataSourceOptions(config)]

getTablesQuery(dbType) ==
    CASE dbType = "postgres" -> "information_schema.tables public BASE TABLE"
      [] dbType = "mysql" -> "information_schema.tables DATABASE() BASE TABLE"
      [] dbType = "sqlite" -> "sqlite_master table"
      [] dbType = "mssql" -> "information_schema.tables BASE TABLE"
      [] OTHER -> "information_schema.tables public BASE TABLE"

getTestQuery(dbType) ==
    CASE dbType \in DbTypes -> "SELECT 1 as test"
      [] OTHER -> "SELECT 1 as test"

\* String helpers on sequences of characters.
\* the least element of a non-empty set of integers, and the greatest
Least(S) == CHOOSE i \in S : \A j \in S : i <= j
Greatest(S) == CHOOSE i \in S : \A j \in S : j <= i

\* s from its first character that is not a space
TrimStart(s) ==
    LET kept == {i \in 1..Len(s) : s[i] # " "}
    IN  IF kept = {} THEN <<>> ELSE SubSeq(s, Least(kept), Len(s))

\* s up to its last character that is not a space
TrimEnd(s) ==
    LET kept == {i \in 1..Len(s) : s[i] # " "}
    IN  IF kept = {} THEN <<>> ELSE SubSeq(s, 1, Greatest(kept))

\* String.prototype.trim
Trim(s) == TrimEnd(TrimStart(s))

\* s.split(sep)[0] for a one-character separator
SplitFirst(s, sep) ==
    LET at == {i \in 1..Len(s) : s[i] = sep}
    IN  IF at = {} THEN s ELSE SubSeq(s, 1, Least(at) - 1)

NonEmpty(s) == s # <<>>
FirstColumn(line) == Trim(SplitFirst(line, "|"))

\* .map((line) => line.trim())
TrimAll(lines) == [i \in 1..Len(lines) |-> Trim(lines[i])]

\* .map((line) => line.split('|')[0]?.trim())
FirstColumns(lines) == [i \in 1..Len(lines) |-> FirstColumn(lines[i])]

\* Lines 131-137: tablesResult, already split on "\n", to the table names.
\* split never returns an empty array, so lines has at least one element.
parseTables(lines) ==
    SelectSeq(FirstColumns(SelectSeq(TrimAll(Tail(lines)), NonEmpty)), NonEmpty)

\* Lines the database may answer the enumeration query with.
ResultLines ==
    { <<>>, <<" ">>, <<"t">>, <<" ", "u", " ">>, <<"t", " ", "|", "x">>, <<"|", "u">> }

MaxResultLines == 3

\* Bounded sequences over S of length 1..n
SeqUpTo(S, n) == UNION {[1..k -> S] : k \in 1..n}

ConfigError == [kind |-> "error", class |-> "configuration"]
ConnectError(at) == [kind |-> "error", class |-> "connectivity", at |-> at]

\* Lines 97-124: the call up to its first await.
Resolve ==
    /\ rpc = "idle"
    /\ \E c \in ConfigArgs :
          /\ rconfig' = c
          /\ IF c = Undefined
             THEN /\ rpc' = "rejected"
                  /\ rresult' = ConfigError
                  /\ opened' = opened
             ELSE /\ rpc' = "openBasic"
                  /\ rresult' = rresult
                  /\ opened' = Append(opened, basicOptions(c))
    /\ UNCHANGED <<existingTables, enumStatus, queries, probeStatus>>
    /\ UNCHANGED regVars
    /\ UNCHANGED expVars
    /\ UNCHANGED fnVars
    /\ UNCHANGED loopVars

\* Line 124 resolves; line 130 issues the enumeration query.
OpenBasicOk ==
    /\ rpc = "openBasic"
    /\ rpc' = "enumerate"
    /\ queries' = Append(queries, [conn |-> Len(opened),
                                   sql |-> getTablesQuery(TypeOf(rconfig))])
    /\ UNCHANGED <<rconfig, existingTables, enumStatus, opened, probeStatus, rresult>>
    /\ UNCHANGED regVars
    /\ UNCHANGED expVars
    /\ UNCHANGED fnVars
    /\ UNCHANGED loopVars

\* Line 124 rejects: the method rejects.
OpenBasicFail ==
    /\ rpc = "openBasic"
    /\ rpc' = "rejected"
    /\ rresult' = ConnectError("openBasic")
    /\ UNCHANGED <<rconfig, existingTables, enumStatus, opened, queries, probeStatus>>
    /\ UNCHANGED regVars
    /\ UNCHANGED expVars
    /\ UNCHANGED fnVars
    /\ UNCHANGED loopVars

\* the catch block of line 138 rethrowing
AfterEnumerateAbort(status) == IF status = "failed" THEN "rejected" ELSE "openFinal"

\* Where the method goes once the try block of lines 128-142 has ended.
AfterEnumerate(status) == "openFinal"

\* Lines 130-156, the enumeration query answered with text.
EnumerateOk ==
    /\ rpc = "enumerate"
    /\ \E text \in SeqUpTo(ResultLines, MaxResultLines) :
          /\ existingTables' = parseTables(text)
          /\ opened' = Append(opened, options(rconfig, parseTables(text)))
    /\ enumStatus' = "ok"
    /\ rpc' = AfterEnumerate("ok")
    /\ UNCHANGED <<rconfig, queries, probeStatus, rresult>>
    /\ UNCHANGED regVars
    /\ UNCHANGED expVars
    /\ UNCHANGED fnVars
    /\ UNCHANGED loopVars

\* Lines 138-156, the enumeration query (or the parsing of its answer) threw.
EnumerateFail ==
    /\ rpc = "enumerate"
    /\ enumStatus' = "failed"
    /\ rpc' = AfterEnumerate("failed")
    /\ IF rpc' = "openFinal"
       THEN /\ existingTables' = <<>>
            /\ opened' = Append(opened, options(rconfig, <<>>))
            /\ rresult' = rresult
       ELSE /\ rresult' = ConnectError("enumerate")
            /\ UNCHANGED <<existingTables, opened>>
    /\ UNCHANGED <<rconfig, queries, probeStatus>>
    /\ UNCHANGED regVars
    /\ UNCHANGED expVars
    /\ UNCHANGED fnVars
    /\ UNCHANGED loopVars

\* Line 156 resolves; line 160 issues the test query on the final connection.
OpenFinalOk ==
    /\ rpc = "openFinal"
    /\ rpc' = "probe"
    /\ queries' = Append(queries, [conn |-> Len(opened),
                                   sql |-> getTestQuery(TypeOf(rconfig))])
    /\ UNCHANGED <<rconfig, existingTables, enumStatus, opened, probeStatus, rresult>>
    /\ UNCHANGED regVars
    /\ UNCHANGED expVars
    /\ UNCHANGED fnVars
    /\ UNCHANGED loopVars

OpenFinalFail ==
    /\ rpc = "openFinal"
    /\ rpc' = "rejected"
    /\ rresult' = ConnectError("openFinal")
    /\ UNCHANGED <<rconfig, existingTables, enumStatus, opened, queries, probeStatus>>
    /\ UNCHANGED regVars
    /\ UNCHANGED expVars
    /\ UNCHANGED fnVars
    /\ UNCHANGED loopVars

\* The connection handle returned at line 166.
SqlDatabase(i) == [kind |-> "SqlDatabase", conn |-> i, options |-> opened[i]]

\* the test query's rejection swallowed
AfterProbeIgnored(ok) == SqlDatabase(Len(opened))

\* What the method settles with once the test query has settled (lines 160-166).
AfterProbe(ok) == IF ok THEN SqlDatabase(Len(opened)) ELSE ConnectError("probe")

ProbeOk ==
    /\ rpc = "probe"
    /\ probeStatus' = "ok"
    /\ rresult' = AfterProbe(TRUE)
    /\ rpc' = IF rresult'.kind = "error" THEN "rejected" ELSE "returned"
    /\ UNCHANGED <<rconfig, existingTables, enumStatus, opened, queries>>
    /\ UNCHANGED regVars
    /\ UNCHANGED expVars
    /\ UNCHANGED fnVars
    /\ UNCHANGED loopVars

ProbeFail ==
    /\ rpc = "probe"
    /\ probeStatus' = "failed"
    /\ rresult' = AfterProbe(FALSE)
    /\ rpc' = IF rresult'.kind = "error" THEN "rejected" ELSE "returned"
    /\ UNCHANGED <<rconfig, existingTables, enumStatus, opened, queries>>
    /\ UNCHANGED regVars
    /\ UNCHANGED expVars
    /\ UNCHANGED fnVars
    /\ UNCHANGED loopVars

NoResult == [kind |-> "pending"]

\* The call is over; the next call starts with fresh locals.
ResolveAgain ==
    /\ rpc \in {"returned", "rejected"}
    /\ rpc' = "idle"
    /\ rconfig' = Undefined
    /\ existingTables' = <<>>
    /\ enumStatus' = "none"
    /\ opened' = <<>>
    /\ queries' = <<>>
    /\ probeStatus' = "none"
    /\ rresult' = NoResult
    /\ UNCHANGED regVars
    /\ UNCHANGED expVars
    /\ UNCHANGED fnVars
    /\ UNCHANGED loopVars

----------------------------------------------------------------------------
(* excel_export tool: createExcelExportTool.func                           *)

\* JavaScript values of the tool arguments.
JsNull == [kind |-> "null"]
JsNumber(n) == [kind |-> "number", n |-> n]
JsString(chars) == [kind |-> "string", v |-> chars]
JsObject == [kind |-> "object"]
JsArray(elems) == [kind |-> "array", elems |-> elems]

\* JavaScript truthiness
Truthy(x) ==
    CASE x.kind = "undefined" -> FALSE
      [] x.kind = "null" -> FALSE
      [] x.kind = "number" -> x.n # 0
      [] x.kind = "string" -> x.v # <<>>
      [] OTHER -> TRUE

\* args.f
Arg(args, f) == IF f \in DOMAIN args THEN args[f] ELSE Undefined

Lower ==
    [A |-> "a", B |-> "b", C |-> "c", D |-> "d", E |-> "e", F |-> "f", G |-> "g",
     H |-> "h", I |-> "i", J |-> "j", K |-> "k", L |-> "l", M |-> "m", N |-> "n",
     O |-> "o", P |-> "p", Q |-> "q", R |-> "r", S |-> "s", T |-> "t", U |-> "u",
     V |-> "v", W |-> "w", X |-> "x", Y |-> "y", Z |-> "z"]

UpperLetters == DOMAIN Lower
LowerLetters == {Lower[c] : c \in UpperLetters}
Digits == {"0", "1", "2", "3", "4", "5", "6", "7", "8", "9"}

\* String.prototype.toLowerCase
toLowerCase(s) == [i \in 1..Len(s) |-> IF s[i] \in UpperLetters THEN Lower[s[i]] ELSE s[i]]

\* String.prototype.endsWith
endsWith(s, suffix) ==
    /\ Len(s) >= Len(suffix)
    /\ SubSeq(s, Len(s) - Len(suffix) + 1, Len(s)) = suffix

startsWith(s, prefix) ==
    /\ Len(s) >= Len(prefix)
    /\ SubSeq(s, 1, Len(prefix)) = prefix

\* s.split(sep)[0]: what precedes the first occurrence of sep
splitFirst(s, sep) ==
    LET at == {i \in 1..Len(s) : startsWith(SubSeq(s, i, Len(s)), sep)}
    IN  IF at = {} THEN s ELSE SubSeq(s, 1, Least(at) - 1)

\* s.slice(0, n)
slice0(s, n) == SubSeq(s, 1, IF Len(s) < n THEN Len(s) ELSE n)

DotXlsx == <<".", "x", "l", "s", "x">>
Report == <<"R", "e", "p", "o", "r", "t">>

MaxSheetNameLen == 31
MaxFilenameLen == 200

\* the character class of line 273
InvalidSheetChars == {":", "\\", "/", "?", "*", "[", "]"}

\* the complement of the character class of line 282
FilenameChars == LowerLetters \cup UpperLetters \cup Digits \cup {".", "_", "-"}

\* Lines 272-276, for a string or undefined name
sanitizeSheetName(name) ==
    LET given == IF Truthy(name) THEN name.v ELSE Report
        cleaned == Trim([i \in 1..Len(given) |->
                           IF given[i] \in InvalidSheetChars THEN " " ELSE given[i]])
        cut == slice0(cleaned, MaxSheetNameLen)
    IN  IF cut # <<>> THEN cut ELSE Report

\* Lines 279-281: base, for a string name; time is the digits of
\* new Date().getTime()
filenameBase(name, time) ==
    IF endsWith(toLowerCase(name), DotXlsx)
    THEN splitFirst(name, DotXlsx) \o <<"_">> \o time \o DotXlsx
    ELSE name \o <<"_">> \o time \o DotXlsx

\* Line 282: base.replace(/[^a-zA-Z0-9._-]/g, '_').slice(0, 200)
replaceAndCut(base) ==
    slice0([i \in 1..Len(base) |-> IF base[i] \in FilenameChars THEN base[i] ELSE "_"],
           MaxFilenameLen)

\* sanitizeFilename without the replacement of line 282
sanitizeFilenameNoReplace(name, time) == slice0(filenameBase(name, time), MaxFilenameLen)

\* Lines 278-283
sanitizeFilename(name, time) == replaceAndCut(filenameBase(name, time))

\* process.env.PG_DATABASE || 'db'
pgDatabase(e) == IF EnvTruthy(e.PG_DATABASE) THEN <<"s", "a", "l", "e", "s">> ELSE <<"d", "b">>

\* Line 286
defaultName(e, isoDate) ==
    <<"r", "e", "p", "o", "r", "t", "_">> \o pgDatabase(e) \o <<"_">> \o isoDate \o DotXlsx

\* Line 290
objectKey(e, finalFilename) ==
    <<"r", "e", "p", "o", "r", "t", "s", "/">> \o pgDatabase(e) \o <<"/">> \o finalFilename

maxRetries == 3
MaxFileSizeMB == 50
BytesPerMB == 1024 * 1024

\* the size rounded down to whole megabytes before the comparison
tooLargeFloored(length) == (length \div BytesPerMB) > MaxFileSizeMB

\* Line 303: fileSizeMB > 50, with fileSizeMB = length / (1024 * 1024)
tooLarge(length) == length > MaxFileSizeMB * BytesPerMB

\* The strings the func returns, by the line that builds them.
NoDataError == [kind |-> "string", form |-> "error", text |-> "Error: No data parameter provided"]
BadDataError == [kind |-> "string", form |-> "error", text |-> "Error: Data must be a non-empty array of objects"]
TooLargeError(length) == [kind |-> "string", form |-> "error", text |-> "File too large", bytes |-> length]
FailedError(message) == [kind |-> "string", form |-> "error",
                         text |-> "Failed to generate and upload Excel file to S3", message |-> message]
JsonResult(url, filename) == [kind |-> "string", form |-> "json", url |-> url, filename |-> filename]

\* the validation without its length test
validateDataNoLength(data) ==
    IF ~Truthy(data) THEN NoDataError
    ELSE IF data.kind # "array" THEN BadDataError
    ELSE Undefined

\* Lines 261-267: the error string returned for the data argument, or Undefined
\* when the func goes on.
validateData(data) ==
    IF ~Truthy(data) THEN NoDataError
    ELSE IF data.kind # "array" \/ data.elems = <<>> THEN BadDataError
    ELSE Undefined

\* the catch block rethrowing
catchAllRethrow(message) == [kind |-> "thrown", message |-> message]

\* Lines 359-362: what the func settles with when error was thrown inside its try.
catchAll(message) == FailedError(message)

\* the exhaustion test off by one
exhaustedLate(attempts) == attempts > maxRetries

\* Line 338
exhausted(attempts) == attempts >= maxRetries

\* Line 326
loopGoesOn(attempts) == attempts < maxRetries

\* Line 346: the wait in milliseconds; 2^attempts with attempts in 1..maxRetries
RECURSIVE pow2(_)
pow2(n) == IF n = 0 THEN 1 ELSE 2 * pow2(n - 1)
\* a wait that grows linearly
backoffMsLinear(attempts) == attempts * 1000

backoffMs(attempts) == pow2(attempts) * 1000

\* Line 352
publicUrl(key) == [bucket |-> "reporting-agent-files", region |-> "us-east-1", key |-> key]

Row1 == [id |-> 1, status |-> "open"]
Row2 == [id |-> 2]

\* The data arguments tried.
DataArgs ==
    {Undefined, JsNull, JsNumber(0), JsNumber(7), JsString(<<>>), JsString(<<"r", "o", "w", "s">>),
     JsObject, JsArray(<<>>), JsArray(<<Row1>>), JsArray(<<Row1, Row2>>)}

\* The filename arguments tried.
FilenameArgs ==
    {Undefined, JsString(<<>>), JsNumber(42),
     JsString(<<"q", "3">>),
     JsString(<<"q", "3", ".", "x", "l", "s", "x">>),
     JsString(<<"Q", " ", "3", ".", "X", "L", "S", "X">>),
     JsString(<<"a", "/", "b", ".", "x", "l", "s", "x", ".", "x", "l", "s", "x">>)}

\* The sheetName arguments tried.
SheetNameArgs ==
    {Undefined, JsString(<<>>), JsNumber(42),
     JsString(<<"Q", "3">>),
     JsString(<<" ", "a", ":", "b", "/">>),
     JsString(<<"[", "]">>)}

\* The args objects tried: a property that is undefined is the same to the func
\* as a property that is not there.
ExportArgs ==
    {[data |-> d, filename |-> f, sheetName |-> n] :
        d \in DataArgs, f \in FilenameArgs, n \in SheetNameArgs}

\* new Date().getTime() and new Date().toISOString().slice(0, 10)
Times == {<<"1", "7", "6", "2">>, <<"1", "7", "6", "3">>}
IsoDates == {<<"2", "0", "2", "5", "-", "1", "1", "-", "2", "2">>}

\* Buffer lengths XLSX.write may produce.
BufferLengths == {1, 4096, 50 * 1024 * 1024, 50 * 1024 * 1024 + 1, 60 * 1024 * 1024}

\* Lines 259-321: the func up to its first await.  The XLSX calls of lines
\* 293-299 either throw or produce a buffer of the given length.
ExportCall ==
    /\ epc = "idle"
    /\ \E args \in ExportArgs, time \in Times, isoDate \in IsoDates,
          xlsxThrows \in BOOLEAN, length \in BufferLengths :
          LET data == Arg(args, "data")
              filename == Arg(args, "filename")
              sheetName == Arg(args, "sheetName")
              invalid == validateData(data)
              \* (name || 'Report').replace and name.toLowerCase throw on a number
              typeError == \/ (Truthy(sheetName) /\ sheetName.kind # "string")
                           \/ (Truthy(filename) /\ filename.kind # "string")
              finalSheetName == sanitizeSheetName(sheetName)
              finalFilename ==
                  sanitizeFilename(IF Truthy(filename) THEN filename.v
                                   ELSE defaultName(env, isoDate), time)
              key == objectKey(env, finalFilename)
          IN  /\ eargs' = args
              /\ uploadAttempts' = 0
              /\ IF invalid # Undefined
                 THEN /\ eresult' = invalid
                      /\ epc' = "done"
                      /\ UNCHANGED <<upload, events>>
                 ELSE IF typeError
                 THEN /\ eresult' = catchAll("TypeError")
                      /\ epc' = IF eresult'.kind = "string" THEN "done" ELSE "threw"
                      /\ events' = Append(events, [e |-> "throw", message |-> "TypeError"])
                      /\ UNCHANGED upload
                 ELSE IF xlsxThrows
                 THEN /\ eresult' = catchAll("XLSX error")
                      /\ epc' = IF eresult'.kind = "string" THEN "done" ELSE "threw"
                      /\ events' = Append(events, [e |-> "throw", message |-> "XLSX error"])
                      /\ UNCHANGED upload
                 ELSE IF tooLarge(length)
                 THEN /\ eresult' = TooLargeError(length)
                      /\ epc' = "done"
                      /\ events' = Append(events, [e |-> "sizeCheck", bytes |-> length])
                      /\ UNCHANGED upload
                 ELSE /\ upload' = [Key |-> key, Body |-> length, filename |-> finalFilename,
                                    sheet |-> finalSheetName]
                      /\ events' = Append(events, [e |-> "sizeCheck", bytes |-> length])
                      /\ IF loopGoesOn(0)
                         THEN /\ epc' = "sending"
                              /\ eresult' = eresult
                         ELSE /\ epc' = "done"
                              /\ eresult' = JsonResult(publicUrl(key), finalFilename)
    /\ UNCHANGED regVars
    /\ UNCHANGED resVars
    /\ UNCHANGED fnVars
    /\ UNCHANGED loopVars

\* Lines 328-330 and 351-358: s3Client.send resolves.
SendOk ==
    /\ epc = "sending"
    /\ events' = Append(events, [e |-> "send", ok |-> TRUE])
    /\ eresult' = JsonResult(publicUrl(upload.Key), upload.filename)
    /\ epc' = "done"
    /\ UNCHANGED <<eargs, upload, uploadAttempts>>
    /\ UNCHANGED regVars
    /\ UNCHANGED resVars
    /\ UNCHANGED fnVars
    /\ UNCHANGED loopVars

\* Lines 331-347: s3Client.send rejects.
SendFail ==
    /\ epc = "sending"
    /\ uploadAttempts' = uploadAttempts + 1
    /\ IF exhausted(uploadAttempts')
       THEN /\ events' = events \o <<[e |-> "send", ok |-> FALSE],
                                     [e |-> "throw", message |-> "S3 upload failed after 3 attempts"]>>
            /\ eresult' = catchAll("S3 upload failed after 3 attempts")
            /\ epc' = IF eresult'.kind = "string" THEN "done" ELSE "threw"
       ELSE /\ events' = events \o <<[e |-> "send", ok |-> FALSE],
                                     [e |-> "wait", ms |-> backoffMs(uploadAttempts')]>>
            /\ eresult' = eresult
            /\ epc' = "backoff"
    /\ UNCHANGED <<eargs, upload>>
    /\ UNCHANGED regVars
    /\ UNCHANGED resVars
    /\ UNCHANGED fnVars
    /\ UNCHANGED loopVars

\* The timer of line 345 fires; line 326 decides whether the loop goes on.
BackoffElapsed ==
    /\ epc = "backoff"
    /\ IF loopGoesOn(uploadAttempts)
       THEN /\ epc' = "sending"
            /\ eresult' = eresult
       ELSE /\ epc' = "done"
            /\ eresult' = JsonResult(publicUrl(upload.Key), upload.filename)
    /\ UNCHANGED <<eargs, upload, uploadAttempts, events>>
    /\ UNCHANGED regVars
    /\ UNCHANGED resVars
    /\ UNCHANGED fnVars
    /\ UNCHANGED loopVars

\* The call is over; the next call starts with fresh locals.
ExportAgain ==
    /\ epc \in {"done", "threw"}
    /\ epc' = "idle"
    /\ eargs' = Undefined
    /\ upload' = Undefined
    /\ uploadAttempts' = 0
    /\ events' = <<>>
    /\ eresult' = NoResult
    /\ UNCHANGED regVars
    /\ UNCHANGED resVars
    /\ UNCHANGED fnVars
    /\ UNCHANGED loopVars

----------------------------------------------------------------------------
(* The pure helpers of the excel_export func, applied to drawn inputs      *)

\* n times the letter "a"
Pad(n) == [i \in 1..n |-> "a"]

\* Lengths the names tried are padded to the left with.
PadLens == {0, 1, 25, 29, 30, 31, 185, 190, 195, 200, 205}

NameTails ==
    { <<"q", "3">>,
      <<"q", "3", ".", "x", "l", "s", "x">>,
      <<"Q", " ", "3", ".", "X", "L", "S", "X">>,
      <<"a", "/", "b", ".", "x", "l", "s", "x", ".", "x", "l", "s", "x">>,
      <<" ", "b">>,
      <<":", " ", "x", " ">>,
      <<"[", "]">> }

\* The names tried: a tail after a run of letters, from 2 to over 200 characters
NameInputs == {Pad(n) \o t : n \in PadLens, t \in NameTails}

\* The database names of the connections a turn may be bound to.
Databases == {<<"s", "a", "l", "e", "s">>, <<"h", "r">>}

\* Lines 222 and 289-290: the object key of an export made in a turn bound to
\* the connection config.  createExcelExportTool takes no connection: the key
\* is built from process.env alone.
exportKey(config, e, filename, time) == objectKey(e, sanitizeFilename(filename, time))

\* finalFilename for a given filename (line 289, filename given)
ApplySanitizeFilename ==
    /\ fn.op = "none"
    /\ \E name \in NameInputs, time \in Times, time2 \in Times :
          fn' = [op |-> "sanitizeFilename", name |-> name, time |-> time,
                 out |-> sanitizeFilename(name, time),
                 again |-> sanitizeFilename(sanitizeFilename(name, time), time2)]
    /\ UNCHANGED <<regVars, resVars, expVars, loopVars>>

\* finalSheetName (line 288), for an absent, empty or given sheet name
ApplySanitizeSheetName ==
    /\ fn.op = "none"
    /\ \E name \in {Undefined, JsString(<<>>)} \cup {JsString(n) : n \in NameInputs} :
          fn' = [op |-> "sanitizeSheetName", name |-> name,
                 out |-> sanitizeSheetName(name),
                 again |-> sanitizeSheetName(JsString(sanitizeSheetName(name)))]
    /\ UNCHANGED <<regVars, resVars, expVars, loopVars>>

\* objectKey (line 290) of two exports of the same file name at the same time,
\* made in turns bound to two connections
ApplyObjectKey ==
    /\ fn.op = "none"
    /\ \E d1 \in Databases, d2 \in Databases, name \in NameTails, time \in Times :
          fn' = [op |-> "objectKey", db1 |-> d1, db2 |-> d2, name |-> name, time |-> time,
                 key1 |-> exportKey([GoodConfig("postgres") EXCEPT !.database = d1],
                                    env, name, time),
                 key2 |-> exportKey([GoodConfig("postgres") EXCEPT !.database = d2],
                                    env, name, time)]
    /\ UNCHANGED <<regVars, resVars, expVars, loopVars>>

\* The application is over; the next one starts from nothing.
ApplyAgain ==
    /\ fn.op # "none"
    /\ fn' = [op |-> "none"]
    /\ UNCHANGED <<regVars, resVars, expVars, loopVars>>

NextHelpers ==
    \/ ApplySanitizeFilename
    \/ ApplySanitizeSheetName
    \/ ApplyObjectKey
    \/ ApplyAgain

----------------------------------------------------------------------------
(* Agent loop (reasoning orchestrator), from the design's state machine:   *)
(* Idle -> Reasoning -> {ToolCall -> Observing -> Reasoning}* ->           *)
(* Finalizing -> Done, with Errored absorbing and reachable from any state *)

\* The configured maximum number of reasoning steps that may request tools.
MaxIterations == 3

\* Percentages a progress event may carry.
Percentages == {0, 25, 50, 75, 100}

LoopRunning == {"Reasoning", "ToolCall", "Observing", "Finalizing"}
LoopEnded == {"Done", "Errored"}

\* the iteration count that is never advanced
iterationsStuck(n) == n

\* The iteration count after one more reasoning step that requested tools.
iterationsAfter(n) == n + 1

\* The iteration maximum is reached.
boundExceeded(n) == n >= MaxIterations

\* A progress event is emitted: its percentage is not below the last one.
EmitProgress == \E pct \in Percentages : pct >= lprogress /\ lprogress' = pct

\* Loop start: the turn is entered with the message, history, tools and backend.
StartTurn ==
    /\ lstate = "Idle"
    /\ lstate' = "Reasoning"
    /\ literations' = 0
    /\ EmitProgress
    /\ UNCHANGED <<regVars, resVars, expVars, fnVars>>

\* The backend requests tool calls: ToolCall, or Errored when the iteration
\* maximum is reached.
ReasonToolCalls ==
    /\ lstate = "Reasoning"
    /\ IF boundExceeded(literations)
       THEN /\ lstate' = "Errored"
            /\ literations' = literations
            /\ lprogress' = 100
       ELSE /\ lstate' = "ToolCall"
            /\ literations' = iterationsAfter(literations)
            /\ EmitProgress
    /\ UNCHANGED <<regVars, resVars, expVars, fnVars>>

\* The backend produces the final answer.
ReasonAnswer ==
    /\ lstate = "Reasoning"
    /\ lstate' = "Finalizing"
    /\ UNCHANGED <<literations, lprogress>>
    /\ UNCHANGED <<regVars, resVars, expVars, fnVars>>

\* The tool call completes, with a result or with a textual error: both are
\* observations.
ToolCompletes ==
    /\ lstate = "ToolCall"
    /\ lstate' = "Observing"
    /\ EmitProgress
    /\ UNCHANGED literations
    /\ UNCHANGED <<regVars, resVars, expVars, fnVars>>

\* The observation is fed back into the next reasoning step.
Observe ==
    /\ lstate = "Observing"
    /\ lstate' = "Reasoning"
    /\ UNCHANGED <<literations, lprogress>>
    /\ UNCHANGED <<regVars, resVars, expVars, fnVars>>

\* Finalization: the terminal event of a successful turn is at 100%.
Finalize ==
    /\ lstate = "Finalizing"
    /\ lstate' = "Done"
    /\ lprogress' = 100
    /\ UNCHANGED literations
    /\ UNCHANGED <<regVars, resVars, expVars, fnVars>>

\* An unrecoverable backend failure: Errored, with a terminal progress event.
TurnFails ==
    /\ lstate \in LoopRunning
    /\ lstate' = "Errored"
    /\ lprogress' = 100
    /\ UNCHANGED literations
    /\ UNCHANGED <<regVars, resVars, expVars, fnVars>>

\* The turn is over; the next turn starts from Idle.
NextTurn ==
    /\ lstate \in LoopEnded
    /\ lstate' = "Idle"
    /\ literations' = 0
    /\ lprogress' = 0
    /\ UNCHANGED <<regVars, resVars, expVars, fnVars>>

NextLoop ==
    \/ StartTurn
    \/ ReasonToolCalls
    \/ ReasonAnswer
    \/ ToolCompletes
    \/ Observe
    \/ Finalize
    \/ TurnFails
    \/ NextTurn

----------------------------------------------------------------------------
\* Values PG_DATABASE can have: unset, set.
PgValues == {"unset", "sales"}

Envs == [OPENAI_API_KEY : KeyValues, ANTHROPIC_API_KEY : KeyValues, PG_DATABASE : PgValues]

Init ==
    /\ env \in Envs
    /\ openaiLLM = initializeLLMs(env).openaiLLM
    /\ anthropicLLM = initializeLLMs(env).anthropicLLM
    /\ consoleErrors = initializeLLMs(env).consoleErrors
    /\ llmCall = NoCall
    /\ llmListing = NoCall
    /\ rpc = "idle"
    /\ rconfig = Undefined
    /\ existingTables = <<>>
    /\ enumStatus = "none"
    /\ opened = <<>>
    /\ queries = <<>>
    /\ probeStatus = "none"
    /\ rresult = NoResult
    /\ epc = "idle"
    /\ eargs = Undefined
    /\ upload = Undefined
    /\ uploadAttempts = 0
    /\ events = <<>>
    /\ eresult = NoResult
    /\ fn = [op |-> "none"]
    /\ lstate = "Idle"
    /\ literations = 0
    /\ lprogress = 0

vars == <<regVars, resVars, expVars, fnVars, loopVars>>

Next ==
    \/ GetLLM
    \/ GetAvailableLLMs
    \/ Resolve
    \/ OpenBasicOk
    \/ OpenBasicFail
    \/ EnumerateOk
    \/ EnumerateFail
    \/ OpenFinalOk
    \/ OpenFinalFail
    \/ ProbeOk
    \/ ProbeFail
    \/ ResolveAgain

\* The service's registry and resolver methods.
Spec == Init /\ [][Next]_vars

NextExport ==
    \/ ExportCall
    \/ SendOk
    \/ SendFail
    \/ BackoffElapsed
    \/ ExportAgain

\* The excel_export tool.
ExportSpec == Init /\ [][NextExport]_vars

\* The pure helpers of the excel_export tool.
HelperSpec == Init /\ [][NextHelpers]_vars

\* The agent loop: the orchestrator keeps running a turn it has started (every
\* step it awaits has an upper time bound), so the loop's steps are weakly fair.
LoopSpec == Init /\ [][NextLoop]_vars /\ WF_vars(NextLoop)

----------------------------------------------------------------------------
(* Properties                                                              *)

\* The s3Client.send outcomes of the running call, in order.
IsSend(ev) == ev.e = "send"
IsThrow(ev) == ev.e = "throw"
IsSizeCheck(ev) == ev.e = "sizeCheck"
Sends == SelectSeq(events, IsSend)
Outcomes == [i \in 1..Len(Sends) |-> Sends[i].ok]
Throws == SelectSeq(events, IsThrow)
AggregateRaised ==
    \E i \in 1..Len(Throws) : Throws[i].message = "S3 upload failed after 3 attempts"

\* C1: the retry loop makes at most 3 upload attempts and none after a
\* successful one; two failures then a success end the call with the success
\* result after exactly 3 attempts; three failures raise the aggregate upload
\* failure after exactly 3 attempts and end the call, and the aggregate failure
\* is raised in no other case.
C1_RetryLoop ==
    /\ Len(Sends) <= 3
    /\ \A i \in 1..Len(Sends) : Outcomes[i] => i = Len(Sends)
    /\ Outcomes = <<FALSE, FALSE, TRUE>> => epc = "done" /\ eresult.form = "json"
    /\ Outcomes = <<FALSE, FALSE, FALSE>> => epc = "done" /\ AggregateRaised
    /\ AggregateRaised => Outcomes = <<FALSE, FALSE, FALSE>>
    /\ epc \in {"sending", "backoff"} => uploadAttempts = Len(Sends) /\ Len(Sends) < 3

C1_Witness ==
    /\ epc = "done"
    /\ Outcomes = <<FALSE, FALSE, TRUE>>
    /\ eresult.form = "json"

\* The data argument is missing, not an array, or an empty array.
MalformedData(args) ==
    LET data == Arg(args, "data")
    IN  data.kind # "array" \/ data.elems = <<>>

\* C2: a call whose data argument is missing, an empty array or not an array
\* ends at once with an error string: nothing is thrown, no PutObjectCommand
\* is built and no upload attempt is made.
C2_MalformedDataRejected ==
    (epc # "idle" /\ MalformedData(eargs)) =>
        /\ epc = "done"
        /\ eresult.kind = "string"
        /\ eresult.form = "error"
        /\ eresult.text \in {NoDataError.text, BadDataError.text}
        /\ upload = Undefined
        /\ events = <<>>

C2_Witness ==
    /\ epc = "done"
    /\ Arg(eargs, "data") = JsArray(<<>>)
    /\ eresult = BadDataError

SizeChecks == SelectSeq(events, IsSizeCheck)

\* C3: when the serialized workbook is larger than 50 MB the call ends with
\* the size-limit error string and no upload attempt; and every upload attempt
\* comes after the size check.
C3_SizeLimit ==
    /\ \A i \in 1..Len(SizeChecks) :
          SizeChecks[i].bytes > 50 * 1024 * 1024 =>
              /\ epc = "done"
              /\ eresult.kind = "string"
              /\ eresult.form = "error"
              /\ eresult.text = "File too large"
              /\ Sends = <<>>
              /\ upload = Undefined
    /\ \A j \in 1..Len(events) :
          IsSend(events[j]) => \E i \in 1..(j - 1) : IsSizeCheck(events[i])

C3_Witness ==
    /\ epc = "done"
    /\ Len(SizeChecks) = 1
    /\ SizeChecks[1].bytes = 50 * 1024 * 1024 + 1
    /\ eresult.text = "File too large"
    /\ Sends = <<>>

SendSucceeded == \E i \in 1..Len(Sends) : Sends[i].ok

\* C4: a call never ends by throwing; it ends with a string, which is the
\* JSON {url, filename} exactly when an upload attempt succeeded and an error
\* string otherwise, exhausted retries included.
C4_AlwaysReturnsString ==
    /\ epc # "threw"
    /\ epc = "done" =>
          /\ eresult.kind = "string"
          /\ eresult.form \in {"json", "error"}
          /\ eresult.form = "json" <=> SendSucceeded
          /\ eresult.form = "json" => DOMAIN eresult = {"kind", "form", "url", "filename"}
    /\ SendSucceeded => epc = "done"

C4_Witness ==
    /\ epc = "done"
    /\ Outcomes = <<FALSE, FALSE, FALSE>>
    /\ eresult = FailedError("S3 upload failed after 3 attempts")

\* Every required field of the config is there and not empty.
FieldPresent(obj, f) ==
    /\ f \in DOMAIN obj
    /\ IF f = "port" THEN obj[f] # 0 ELSE obj[f] # ""

AllFieldsPresent(obj) ==
    /\ obj # Undefined
    /\ \A f \in RequiredFields : FieldPresent(obj, f)

\* C5: a call whose config lacks a required field, or has it empty, is
\* rejected with a configuration error and no connection is attempted.
C5_MissingFieldRejected ==
    (rpc # "idle" /\ ~AllFieldsPresent(rconfig)) =>
        /\ rpc = "rejected"
        /\ rresult = ConfigError
        /\ opened = <<>>

\* C6: when the enumeration succeeded and named tables, the connection
\* returned is opened with its tables restricted to the enumerated ones.
C6_RestrictedToExisting ==
    (rpc = "returned" /\ enumStatus = "ok" /\ existingTables # <<>>) =>
        /\ "includesTables" \in DOMAIN rresult.options
        /\ rresult.options.includesTables = existingTables

\* C7: once the enumeration has failed the call goes on with an empty table
\* list and an unrestricted final connection; it is rejected only if opening
\* the final connection or the test query fails, and it returns the final
\* connection when the test query succeeds.
C7_IntrospectionFailureNonFatal ==
    enumStatus = "failed" =>
        /\ existingTables = <<>>
        /\ Len(opened) = 2
        /\ opened[2] = [appDataSourceOptions |-> appDataSourceOptions(rconfig)]
        /\ rpc \in {"openFinal", "probe", "returned", "rejected"}
        /\ rpc = "rejected" => rresult \in {ConnectError("openFinal"), ConnectError("probe")}
        /\ rpc \in {"probe", "returned"} =>
              queries[Len(queries)] = [conn |-> 2, sql |-> "SELECT 1 as test"]
        /\ probeStatus = "ok" =>
              rpc = "returned" /\ rresult.kind = "SqlDatabase" /\ rresult.conn = 2

C7_Witness ==
    /\ enumStatus = "failed"
    /\ rpc = "returned"
    /\ rresult.kind = "SqlDatabase"

\* C8: a connection is returned only after the test query ran on the final
\* connection and succeeded; when the test query fails the call is rejected
\* with an error and returns no connection.
C8_ProbeBeforeReturn ==
    /\ (rpc = "returned" \/ rresult.kind = "SqlDatabase") =>
          /\ rpc = "returned"
          /\ rresult.kind = "SqlDatabase"
          /\ probeStatus = "ok"
          /\ rresult.conn = Len(opened)
          /\ rresult.options = opened[Len(opened)]
          /\ queries[Len(queries)] = [conn |-> rresult.conn, sql |-> "SELECT 1 as test"]
    /\ probeStatus = "failed" => rpc = "rejected" /\ rresult = ConnectError("probe")

C8_Witness ==
    /\ rpc = "rejected"
    /\ probeStatus = "failed"
    /\ Len(opened) = 2

\* The registered backends, from the environment the service was built in.
Registered ==
    {p \in {"openai", "anthropic"} :
        EnvTruthy(IF p = "openai" THEN env.OPENAI_API_KEY ELSE env.ANTHROPIC_API_KEY)}

BackendOf(p) == IF p = "openai" THEN OpenAIBackend ELSE AnthropicBackend

\* C9: getLLM returns the backend providerId names when it is registered, and
\* otherwise the first registered backend in the order openai, anthropic; the
\* result is a function of providerId and the registered set.
C9_Selection ==
    llmCall.kind = "call" =>
        /\ llmCall.provider \in Registered => llmCall.value = BackendOf(llmCall.provider)
        /\ (llmCall.provider \notin Registered /\ "openai" \in Registered) =>
              llmCall.value = OpenAIBackend
        /\ (llmCall.provider \notin Registered /\ Registered = {"anthropic"}) =>
              llmCall.value = AnthropicBackend

C9_Witness ==
    /\ llmCall.kind = "call"
    /\ llmCall.provider = "gemini"
    /\ Registered = {"openai", "anthropic"}
    /\ llmCall.value = OpenAIBackend

\* C10: a service with no backend registered does not come up, and getLLM
\* never returns an absent backend.
C10_NoBackendIsFatal ==
    /\ Registered # {}
    /\ llmCall.kind = "call" => llmCall.value # Undefined

\* C11: two exports of the same file name at the same time, made for
\* connections to different databases, get different object keys.
C11_KeyPerDataSource ==
    (fn.op = "objectKey" /\ fn.db1 # fn.db2) => fn.key1 # fn.key2

\* C12 as stated: sanitizing a sanitized file name gives the same file name.
C12_FilenameIdempotent ==
    fn.op = "sanitizeFilename" => fn.again = fn.out

\* C12, amended: the replacement and the cut of line 282 leave a sanitized
\* file name as it is (what sanitizing it again changes is the time stamp it
\* inserts).
C12_ReplaceAndCutIdempotent ==
    fn.op = "sanitizeFilename" => replaceAndCut(fn.out) = fn.out

C12_Witness ==
    /\ fn.op = "sanitizeFilename"
    /\ \E i \in 1..Len(fn.name) : fn.name[i] = "/"
    /\ replaceAndCut(fn.out) = fn.out
    /\ fn.again # fn.out

\* C13: sanitizing a sanitized sheet name gives the same sheet name.
C13_SheetNameIdempotent ==
    fn.op = "sanitizeSheetName" => fn.again = fn.out

\* C16: the file name produced has only characters of [A-Za-z0-9._-], is at
\* most 200 characters long, ends with .xlsx and has the time stamp right
\* before that extension.
C16_FilenameShape ==
    fn.op = "sanitizeFilename" =>
        /\ \A i \in 1..Len(fn.out) : fn.out[i] \in FilenameChars
        /\ Len(fn.out) <= 200
        /\ endsWith(fn.out, DotXlsx)
        /\ endsWith(fn.out, <<"_">> \o fn.time \o DotXlsx)

IsWait(ev) == ev.e = "wait"
Waits == SelectSeq(events, IsWait)
FailedSends == SelectSeq(Sends, LAMBDA ev : ~ev.ok)

\* C15: a wait follows each of the first two failed upload attempts and
\* nothing else, 2 seconds after the first and 4 seconds after the second; two
\* consecutive attempts are always separated by a wait; no wait follows the
\* third failed attempt or a successful one; and the aggregate error is raised
\* only after three failed attempts.
C15_Backoff ==
    /\ Len(Waits) = (IF Len(FailedSends) < 2 THEN Len(FailedSends) ELSE 2)
    /\ \A i \in 1..Len(Waits) : Waits[i].ms = (IF i = 1 THEN 2000 ELSE 4000)
    /\ \A j \in 1..Len(events) :
          IsWait(events[j]) => j > 1 /\ IsSend(events[j - 1]) /\ ~events[j - 1].ok
    /\ \A j \in 1..Len(events) :
          (IsSend(events[j]) /\ \E i \in 1..(j - 1) : IsSend(events[i])) =>
              IsWait(events[j - 1])
    /\ \A j \in 1..Len(events) :
          (IsSend(events[j]) /\ events[j].ok) => j = Len(events)
    /\ Len(FailedSends) = 3 => ~IsWait(events[Len(events)])
    /\ AggregateRaised => Len(FailedSends) = 3 /\ Len(Waits) = 2

C15_Witness ==
    /\ epc = "done"
    /\ Len(Waits) = 2
    /\ Waits[1].ms = 2000
    /\ Waits[2].ms = 4000
    /\ AggregateRaised

ListedIds == {getAvailableLLMs[i].id : i \in 1..Len(getAvailableLLMs)}

\* getLLM(id) returns the backend of provider id itself, not a fallback
ReturnsOwn(id) == getLLM(id) # Undefined /\ getLLM(id).provider = id

\* C17: in every state of the registry, an id is listed by getAvailableLLMs
\* exactly when getLLM(id) returns that provider's own backend; the listing
\* has at most one descriptor per provider; a non-empty listing starts with
\* the backend getLLM() returns; and the backends are those the constructor
\* registered, whatever calls were made (so earlier results still stand).
C17_ListingAgreesWithSelection ==
    /\ \A id \in {"openai", "anthropic", "gemini"} : id \in ListedIds <=> ReturnsOwn(id)
    /\ \A i, j \in 1..Len(getAvailableLLMs) :
          getAvailableLLMs[i].provider = getAvailableLLMs[j].provider => i = j
    /\ getAvailableLLMs # <<>> =>
          /\ getLLM("<absent>") # Undefined
          /\ getAvailableLLMs[1].provider = getLLM("<absent>").provider
          /\ getAvailableLLMs[1].model = getLLM("<absent>").model
    /\ openaiLLM = initializeLLMs(env).openaiLLM
    /\ anthropicLLM = initializeLLMs(env).anthropicLLM
    /\ llmListing.kind = "listing" => llmListing.llms = getAvailableLLMs
    /\ llmCall.kind = "call" => llmCall.value = getLLM(llmCall.provider)

C17_Witness ==
    /\ llmListing.kind = "listing"
    /\ Len(llmListing.llms) = 2
    /\ llmCall.kind = "call"
    /\ llmCall.provider = "<absent>"
    /\ llmCall.value.provider = llmListing.llms[1].provider

\* C14: a turn that has entered Reasoning reaches Done or Errored; it does
\* not cycle forever between Reasoning, ToolCall and Observing.
C14_LoopTerminates ==
    (lstate = "Reasoning") ~> (lstate \in LoopEnded)

C14_Witness ==
    /\ lstate = "Errored"
    /\ literations = MaxIterations
    /\ lprogress = 100

====
